---- MODULE Spec2Model ----
(***************************************************************************)
(* ShopOnline backend (src/main.py, src/models.py, src/database.py).       *)
(*                                                                         *)
(* The state is the relational store (tables user, cart, product,          *)
(* cart_item, order, order_item and the serial id sequences) plus the last *)
(* request and the response it was answered with.  Each action is one HTTP *)
(* handler, run to completion in its own session (get_db).  The requests   *)
(* that run concurrently are split at their commits: sessions holds what   *)
(* each of them has read and not yet written.                              *)
(*                                                                         *)
(* Prices are Float columns; they are modelled as integers (a price in     *)
(* its smallest unit), so sums and products are exact and floating-point   *)
(* rounding is outside the model.                                          *)
(***************************************************************************)
EXTENDS Integers, FiniteSets, Sequences, TLC

\* ------------------------------------------------------------------ bounds
\* Number of requests served in one behaviour.
MaxOps == 3

\* Request inputs.
Emails     == {"a@x", "b@x"}
Passwords  == {"pw1", "pw2"}
Prices     == {2, 3}
Quantities == {-1, 0, 1, 2}

\* ------------------------------------------------------------------ values
\* A NULL foreign key / column (serial ids start at 1).
NULL == 0
\* A NULL password column (User(email=...) sets none); it equals no string a
\* request can carry.
NoPassword == "<NULL>"
\* A session that serves no request.
Idle == [op |-> "idle"]
\* The sessions that can serve requests at the same time.
Sessions == {"s1", "s2"}
\* A response without a cart body.
NoCart == [id |-> NULL, total_price |-> 0, items |-> {}]

VARIABLES
    users,      \* table user:      id -> [email, password, cart_id]
    carts,      \* table cart:      id -> [total_price]
    products,   \* table product:   id -> [price]
    cartItems,  \* table cart_item: id -> [cart_id, product_id, quantity, price, total_price]
    orders,     \* table order:     id -> [user_id, total_price]
    orderItems, \* table order_item: id -> [order_id, product_id, quantity, price, total_price]
    seq,        \* next value of each table's serial primary key
    sessions,   \* session -> the request it is serving between two commits, or Idle
    request,    \* the handler that served the last request
    response,   \* the response to it
    nops        \* requests served so far

db   == <<users, carts, products, cartItems, orders, orderItems, seq>>
vars == <<users, carts, products, cartItems, orders, orderItems, seq, sessions,
          request, response, nops>>

\* ------------------------------------------------------------------ helpers
RECURSIVE SumTotals(_, _)
\* sum(item.total_price for item in ...) over the item ids S of table items.
SumTotals(items, S) ==
    IF S = {} THEN 0
    ELSE LET i == CHOOSE x \in S : TRUE
         IN  items[i].total_price + SumTotals(items, S \ {i})

\* db.query(CartItem).filter(CartItem.cart_id == cart_id).all(), as item ids.
\* A NULL cart_id matches no row.
ItemsOf(items, cart_id) ==
    {i \in DOMAIN items : cart_id # NULL /\ items[i].cart_id = cart_id}

\* The resummed total of a cart.
CartSum(items, cart_id) == SumTotals(items, ItemsOf(items, cart_id))

\* quantity * product.price
Subtotal(quantity, price) == quantity * price

\* A table without one row (db.delete).
Without(table, id) == [i \in DOMAIN table \ {id} |-> table[i]]

\* db.query(User).filter(User.email == email).first(), as a set of ids.
UsersByEmail(email) == {u \in DOMAIN users : users[u].email = email}

\* The cart as a response shows it: id, stored total and item rows.
CartBody(cs, items, cart_id) ==
    [id          |-> cart_id,
     total_price |-> cs[cart_id].total_price,
     items       |-> {[id          |-> i,
                       product_id  |-> items[i].product_id,
                       quantity    |-> items[i].quantity,
                       price       |-> items[i].price,
                       total_price |-> items[i].total_price]
                      : i \in ItemsOf(items, cart_id)}]

Resp(status, detail, cart) == [status |-> status, detail |-> detail, cart |-> cart]

\* The request is answered and counted; at most MaxOps requests are served.
Answer(req, resp) ==
    /\ nops < MaxOps
    /\ request' = req
    /\ response' = resp
    /\ nops' = nops + 1
    /\ UNCHANGED sessions

\* raise HTTPException(...) (or an unhandled exception) before any commit.
Fail(req, status, detail) ==
    /\ Answer(req, Resp(status, detail, NoCart))
    /\ UNCHANGED db

\* ------------------------------------------------------------------ initial state
\* init_db() creates the tables if they are missing and keeps the rows they hold.
\* A fresh database: every table empty, every serial at 1.
EmptyStore ==
    [users |-> << >>, carts |-> << >>, products |-> << >>, cartItems |-> << >>,
     orders |-> << >>, orderItems |-> << >>,
     seq |-> [user |-> 1, cart |-> 1, product |-> 1, item |-> 1]]

\* A database left by earlier requests: the store after sign_up("a@x", "pw1"),
\* sign_up("b@x", "pw2"), create_product(2) and create_product(3), in that order
\* (each user owns an empty cart).
SeededStore ==
    [users |-> (1 :> [email |-> "a@x", password |-> "pw1", cart_id |-> 1]) @@
               (2 :> [email |-> "b@x", password |-> "pw2", cart_id |-> 2]),
     carts |-> (1 :> [total_price |-> 0]) @@ (2 :> [total_price |-> 0]),
     products |-> (1 :> [price |-> 2]) @@ (2 :> [price |-> 3]),
     cartItems |-> << >>,
     orders |-> << >>, orderItems |-> << >>,
     seq |-> [user |-> 3, cart |-> 3, product |-> 3, item |-> 1]]

\* The same database when it also holds order rows.  No handler writes the
\* order tables (the order routes are commented out); delete_user reads and
\* deletes the rows they hold.  Each user has one order: order 1 of user 1 with
\* order items 1 and 2, order 2 of user 2 with order item 3.
OrderedStore ==
    [SeededStore EXCEPT
       !.orders = (1 :> [user_id |-> 1, total_price |-> 7]) @@
                  (2 :> [user_id |-> 2, total_price |-> 2]),
       !.orderItems =
          (1 :> [order_id |-> 1, product_id |-> 1, quantity |-> 2, price |-> 2, total_price |-> 4]) @@
          (2 :> [order_id |-> 1, product_id |-> 2, quantity |-> 1, price |-> 3, total_price |-> 3]) @@
          (3 :> [order_id |-> 2, product_id |-> 1, quantity |-> 1, price |-> 2, total_price |-> 2])]

\* The service starts on one of the databases in stores.
StartIn(stores) ==
    /\ \E store \in stores :
        /\ users = store.users
        /\ carts = store.carts
        /\ products = store.products
        /\ cartItems = store.cartItems
        /\ orders = store.orders
        /\ orderItems = store.orderItems
        /\ seq = store.seq
    /\ sessions = [s \in Sessions |-> Idle]
    /\ request = "none"
    /\ response = Resp(0, "", NoCart)
    /\ nops = 0

Init == StartIn({EmptyStore, SeededStore})

InitOrders == StartIn({OrderedStore})

\* ------------------------------------------------------------------ account
\* (mutant of PasswordsMatch: the confirmation is not compared)
PasswordsMatch_unchecked(password, confirm) == TRUE

\* UserSignup.passwords_match: the request is rejected (422) before the handler runs.
PasswordsMatch(password, confirm) == confirm = password

\* (mutant of EmailRegistered: the lookup finds no row)
EmailRegistered_never(email) == FALSE

\* sign_up: "if db_user" on the row found by email.
EmailRegistered(email) == UsersByEmail(email) # {}

\* POST /signup/
SignUp(email, password, confirm) ==
    LET req == "sign_up"
    IN
    IF ~PasswordsMatch(password, confirm)
    THEN Fail(req, 422, "Passwords do not match")
    ELSE IF EmailRegistered(email)
    THEN Fail(req, 400, "Email already registered")
    ELSE \* the user row is committed, then its cart (new_user.cart is None)
         /\ users' = users @@ (seq.user :>
                [email |-> email, password |-> password, cart_id |-> seq.cart])
         /\ carts' = carts @@ (seq.cart :> [total_price |-> 0])
         /\ seq' = [seq EXCEPT !.user = @ + 1, !.cart = @ + 1]
         /\ UNCHANGED <<orders, orderItems, products, cartItems>>
         /\ Answer(req, Resp(200, "", NoCart))

\* (mutant of UsersByCredentials: the password is not part of the filter)
UsersByCredentials_email_only(email, password) == UsersByEmail(email)

\* db.query(User).filter(User.email == email, User.password == password).first();
\* a NULL password equals no string.
UsersByCredentials(email, password) ==
    {u \in UsersByEmail(email) : users[u].password = password}

\* (mutant of OrdersOf: the query finds no order)
OrdersOf_none(user_id) == {}

\* db.query(Order).filter(Order.user_id == db_user.id).all(), as order ids.
OrdersOf(user_id) == {o \in DOMAIN orders : orders[o].user_id = user_id}

\* DELETE /removeUser/
\* The deletes are flushed by the one commit at the end.
DeleteUser(email, password) ==
    LET req == "delete_user"
    IN
    IF UsersByCredentials(email, password) = {}
    THEN Fail(req, 401, "Invalid email or password")
    ELSE \E u \in UsersByCredentials(email, password) :
         LET cart_id == users[u].cart_id IN
         /\ orderItems' = [i \in {j \in DOMAIN orderItems :
                                    orderItems[j].order_id \notin OrdersOf(u)}
                             |-> orderItems[i]]
         /\ orders' = [o \in DOMAIN orders \ OrdersOf(u) |-> orders[o]]
         /\ users' = Without(users, u)
         /\ carts' = IF cart_id \in DOMAIN carts THEN Without(carts, cart_id) ELSE carts
         \* Cart.items has no delete cascade: the unit of work sets the
         \* children's cart_id to NULL when their cart is deleted
         /\ cartItems' = [i \in DOMAIN cartItems |->
                IF cart_id # NULL /\ cartItems[i].cart_id = cart_id
                THEN [cartItems[i] EXCEPT !.cart_id = NULL]
                ELSE cartItems[i]]
         /\ UNCHANGED <<products, seq>>
         /\ Answer(req,
                   Resp(200, "User and associated data successfully deleted", NoCart))

\* delete_user when db.commit() raises: "except Exception" rolls the session
\* back and answers 500; none of the deletes reaches the store.
DeleteUserCommitFails(email, password) ==
    /\ UsersByCredentials(email, password) # {}
    /\ Fail("delete_user", 500, "An error occurred while deleting the user")

\* ------------------------------------------------------------------ catalog
\* POST /addProduct (the image checks and the upload are outside the model)
CreateProduct(price) ==
    LET req == "create_product"
    IN
    /\ products' = products @@ (seq.product :> [price |-> price])
    /\ seq' = [seq EXCEPT !.product = @ + 1]
    /\ UNCHANGED <<orders, orderItems, users, carts, cartItems>>
    /\ Answer(req, Resp(200, "", NoCart))

\* PUT /products/updateProduct/{product_id}
UpdateProduct(product_id, price) ==
    LET req == "update_product"
    IN
    IF product_id \notin DOMAIN products
    THEN Fail(req, 404, "Product not found")
    ELSE /\ products' = [products EXCEPT ![product_id].price = price]
         /\ UNCHANGED <<orders, orderItems, users, carts, cartItems, seq>>
         /\ Answer(req, Resp(200, "", NoCart))

\* cart_item.product_id and order_item.product_id are foreign keys to product.id
\* with no ON DELETE rule: the store refuses to delete a product row that a
\* cart_item or order_item row references.
ProductReferenced(product_id) ==
    \/ \E i \in DOMAIN cartItems : cartItems[i].product_id = product_id
    \/ \E i \in DOMAIN orderItems : orderItems[i].product_id = product_id

\* DELETE /products/remove/{product_id}
DeleteProduct(product_id) ==
    LET req == "delete_product"
    IN
    IF product_id \notin DOMAIN products
    THEN Fail(req, 404, "Product not found")
    ELSE IF ProductReferenced(product_id)
    THEN Fail(req, 500, "IntegrityError")
    ELSE /\ products' = Without(products, product_id)
         /\ UNCHANGED <<orders, orderItems, users, carts, cartItems, seq>>
         /\ Answer(req, Resp(200, "Product deleted successfully", NoCart))

\* ------------------------------------------------------------------ cart
\* The cart row of a user, NULL when the user has none (db_user.cart is None).
CartOf(user_id) ==
    IF users[user_id].cart_id \in DOMAIN carts THEN users[user_id].cart_id ELSE NULL

\* (mutant of AddRejectsQuantity: zero is let through)
AddRejectsQuantity_negative_only(quantity) == quantity < 0

\* add_to_cart: "if item.quantity <= 0" rejects the request.
AddRejectsQuantity(quantity) == quantity <= 0

\* (mutant of AddQuantity: the quantity is overwritten, not added to)
AddQuantity_overwrite(old, quantity) == quantity

\* add_to_cart: the quantity of an item already in the cart after the add
\* (cart_item.quantity += item.quantity).
AddQuantity(old, quantity) == old + quantity

\* add_to_cart: the cart total after the add (the running total is raised by
\* quantity * product.price, it is not resummed).
AddTotal(total, quantity, price) == total + Subtotal(quantity, price)

\* FastAPI validates what a handler returns against response_model=CartResponse.
\* An ORM Cart's items are CartItem rows, which have no product_name and no
\* product_image attribute, two required fields of CartItemResponse: the response
\* of a cart that holds an item fails validation and the request is answered 500.
\* The same two fields are missing where update_cart_item builds
\* CartItemResponse(...) itself.
ItemResponseFails(items, cart_id) == ItemsOf(items, cart_id) # {}

\* POST /cart/add
AddToCart(user_id, product_id, quantity) ==
    LET req == "add_to_cart"
    IN
    IF AddRejectsQuantity(quantity)
    THEN Fail(req, 400, "Quantity must be greater than zero")
    ELSE IF user_id \notin DOMAIN users
    THEN Fail(req, 404, "User not found")
    ELSE IF product_id \notin DOMAIN products
    THEN Fail(req, 404, "Product not found")
    ELSE IF CartOf(user_id) = NULL
    THEN Fail(req, 500, "AttributeError")      \* db_user.cart.id with cart None
    ELSE
    LET cart_id  == CartOf(user_id)
        price    == products[product_id].price
        existing == {i \in ItemsOf(cartItems, cart_id) :
                        cartItems[i].product_id = product_id}
        answer(items, cs, item_id) ==
            Answer(req,
                   IF ItemResponseFails(items, cart_id)
                   THEN Resp(500, "ResponseValidationError", NoCart)
                   ELSE Resp(200, "", CartBody(cs, items, cart_id)))
        total    == [carts EXCEPT ![cart_id].total_price = AddTotal(@, quantity, price)]
    IN
    /\ carts' = total
    /\ UNCHANGED <<orders, orderItems, users, products>>
    /\ \/ /\ existing # {}
          /\ \E i \in existing :       \* .first()
             LET q == AddQuantity(cartItems[i].quantity, quantity)
                 items == [cartItems EXCEPT ![i].quantity = q,
                                            ![i].total_price = Subtotal(q, price)]
             IN  /\ cartItems' = items
                 /\ UNCHANGED seq
                 /\ answer(items, total, i)
       \/ /\ existing = {}
          /\ LET items == cartItems @@ (seq.item :>
                     [cart_id |-> cart_id, product_id |-> product_id,
                      quantity |-> quantity, price |-> price,
                      total_price |-> Subtotal(quantity, price)])
             IN  /\ cartItems' = items
                 /\ seq' = [seq EXCEPT !.item = @ + 1]
                 /\ answer(items, total, seq.item)

\* POST /cart/update.  Its body is a CartItemUpdate, which has a quantity only:
\* after the quantity check the handler reads item.user_id, which raises, and
\* the request is answered 500 before anything is read or written.
UpdateCart(quantity) ==
    IF quantity = 0
    THEN Fail("update_cart", 400, "Quantity must be greater than zero")
    ELSE Fail("update_cart", 500, "AttributeError")

RECURSIVE OrderById_descending(_)
\* (mutant of OrderById: the ids S as a list in descending order)
OrderById_descending(S) ==
    IF S = {} THEN << >>
    ELSE LET i == CHOOSE x \in S : \A y \in S : x >= y
         IN  <<i>> \o OrderById_descending(S \ {i})

RECURSIVE OrderById(_)
\* .order_by(CartItem.id): the ids S as a list in ascending order.
OrderById(S) ==
    IF S = {} THEN << >>
    ELSE LET i == CHOOSE x \in S : \A y \in S : x <= y
         IN  <<i>> \o OrderById(S \ {i})

\* GET /cart/
\* The rows are those of the cart that join a product row; the body carries them
\* (items), the order in which the list shows them (order, by item id) and the
\* sum of their total_price, not the stored total.
GetCart(user_id) ==
    LET req == "get_cart"
    IN
    IF user_id \notin DOMAIN users \/ CartOf(user_id) = NULL
    THEN Fail(req, 404, "Cart not found")
    ELSE LET cart_id == CartOf(user_id)
             joined  == {i \in ItemsOf(cartItems, cart_id) :
                            cartItems[i].product_id \in DOMAIN products}
             items   == [i \in joined |-> cartItems[i]]
         IN  /\ UNCHANGED db
             /\ Answer(req, Resp(200, "",
                    [id          |-> cart_id,
                     total_price |-> SumTotals(items, joined),
                     items       |-> CartBody(carts, items, cart_id).items,
                     order       |-> OrderById(joined)]))

\* (mutant of UpdateRejectsQuantity: no quantity is refused)
UpdateRejectsQuantity_never(quantity) == FALSE

\* (mutant of UpdateRejectsQuantity: zero is let through)
UpdateRejectsQuantity_negative_only(quantity) == quantity < 0

\* update_cart_item: "if quantity_update.quantity <= 0" rejects the request.
UpdateRejectsQuantity(quantity) == quantity <= 0

\* update_cart_item: the quantity the item is given.
UpdateQuantity(old, quantity) == quantity

\* PUT /cart/update/{item_id}
UpdateCartItem(item_id, user_id, quantity) ==
    LET req == "update_cart_item"
    IN
    IF item_id \notin DOMAIN cartItems
    THEN Fail(req, 404, "Cart item not found")
    ELSE IF user_id \notin DOMAIN users \/ CartOf(user_id) = NULL
    THEN Fail(req, 404, "Cart not found")
    ELSE IF cartItems[item_id].product_id \notin DOMAIN products
    THEN Fail(req, 404, "Product not found")
    ELSE IF UpdateRejectsQuantity(quantity)
    THEN Fail(req, 400, "Invalid quantity")
    ELSE
    LET cart_id == CartOf(user_id)
        price   == products[cartItems[item_id].product_id].price
        q       == UpdateQuantity(cartItems[item_id].quantity, quantity)
        items   == [cartItems EXCEPT ![item_id].quantity = q,
                                     ![item_id].total_price = Subtotal(quantity, price)]
        cs      == [carts EXCEPT ![cart_id].total_price = CartSum(items, cart_id)]
    IN
    /\ cartItems' = items
    /\ carts' = cs
    /\ UNCHANGED <<orders, orderItems, users, products, seq>>
    /\ Answer(req, IF ItemResponseFails(items, cart_id)
                   THEN Resp(500, "ValidationError", NoCart)
                   ELSE Resp(200, "", CartBody(cs, items, cart_id)))

\* (mutant of ResetDeletes: the rows of every cart are deleted)
ResetDeletes_every_cart(cart_id) == DOMAIN cartItems

\* reset_cart: the rows it deletes, those filtered by CartItem.cart_id == cart.id.
ResetDeletes(cart_id) == ItemsOf(cartItems, cart_id)

\* PUT /cart/reset/{user_id}
ResetCart(user_id) ==
    LET req == "reset_cart"
    IN
    IF user_id \notin DOMAIN users \/ CartOf(user_id) = NULL
    THEN Fail(req, 404, "Cart not found")
    ELSE
    LET cart_id == CartOf(user_id)
        items   == [i \in DOMAIN cartItems \ ResetDeletes(cart_id) |-> cartItems[i]]
        cs      == [carts EXCEPT ![cart_id].total_price = 0]
    IN
    /\ cartItems' = items
    /\ carts' = cs
    /\ UNCHANGED <<orders, orderItems, users, products, seq>>
    /\ Answer(req, Resp(200, "", CartBody(cs, items, cart_id)))

\* remove_cart_item: the cart total after the removal
\* (cart.total_price -= cart_item.total_price, not resummed).
RemoveTotal(total, item_total) == total - item_total

\* DELETE /cart/remove
RemoveCartItem(item_id, user_id) ==
    LET req == "remove_cart_item"
    IN
    IF item_id \notin DOMAIN cartItems
    THEN Fail(req, 404, "Cart item not found")
    ELSE IF user_id \notin DOMAIN users \/ CartOf(user_id) = NULL
    THEN Fail(req, 404, "Cart not found")
    ELSE
    LET cart_id == CartOf(user_id)
        items   == Without(cartItems, item_id)
        cs      == [carts EXCEPT ![cart_id].total_price =
                        RemoveTotal(@, cartItems[item_id].total_price)]
    IN
    /\ cartItems' = items
    /\ carts' = cs
    /\ UNCHANGED <<orders, orderItems, users, products, seq>>
    /\ Answer(req, Resp(200, "", CartBody(cs, items, cart_id)))

\* (mutant of IncrementQuantity: the step is 2)
IncrementQuantity_by_two(old) == old + 2

\* increment_cart_item: cart_item.quantity += 1
IncrementQuantity(old) == old + 1

\* PUT /cart/increment
IncrementCartItem(item_id, user_id) ==
    LET req == "increment_cart_item"
    IN
    IF item_id \notin DOMAIN cartItems
    THEN Fail(req, 404, "Cart item not found")
    ELSE IF user_id \notin DOMAIN users \/ CartOf(user_id) = NULL
    THEN Fail(req, 404, "Cart not found")
    ELSE IF cartItems[item_id].product_id \notin DOMAIN products
    THEN Fail(req, 404, "Product not found")
    ELSE
    LET cart_id == CartOf(user_id)
        price   == products[cartItems[item_id].product_id].price
        q       == IncrementQuantity(cartItems[item_id].quantity)
        items   == [cartItems EXCEPT ![item_id].quantity = q,
                                     ![item_id].total_price = Subtotal(q, price)]
        cs      == [carts EXCEPT ![cart_id].total_price = CartSum(items, cart_id)]
    IN
    /\ cartItems' = items
    /\ carts' = cs
    /\ UNCHANGED <<orders, orderItems, users, products, seq>>
    /\ Answer(req, Resp(200, "", CartBody(cs, items, cart_id)))

\* (mutant of DecrementApplies: an item at quantity 1 is decremented too)
DecrementApplies_at_one(quantity) == quantity >= 1

\* decrement_cart_item: "if cart_item.quantity > 1", else nothing is done.
DecrementApplies(quantity) == quantity > 1

\* PUT /cart/decrement
DecrementCartItem(item_id, user_id) ==
    LET req == "decrement_cart_item"
    IN
    IF item_id \notin DOMAIN cartItems
    THEN Fail(req, 404, "Cart item not found")
    ELSE IF user_id \notin DOMAIN users \/ CartOf(user_id) = NULL
    THEN Fail(req, 404, "Cart not found")
    ELSE IF cartItems[item_id].product_id \notin DOMAIN products
    THEN Fail(req, 404, "Product not found")
    ELSE
    LET cart_id == CartOf(user_id)
        price   == products[cartItems[item_id].product_id].price
        q       == cartItems[item_id].quantity - 1
        items   == IF DecrementApplies(cartItems[item_id].quantity)
                   THEN [cartItems EXCEPT ![item_id].quantity = q,
                                          ![item_id].total_price = Subtotal(q, price)]
                   ELSE cartItems
        cs      == IF DecrementApplies(cartItems[item_id].quantity)
                   THEN [carts EXCEPT ![cart_id].total_price = CartSum(items, cart_id)]
                   ELSE carts
    IN
    /\ cartItems' = items
    /\ carts' = cs
    /\ UNCHANGED <<orders, orderItems, users, products, seq>>
    /\ Answer(req, Resp(200, "", CartBody(cs, items, cart_id)))

\* ------------------------------------------------------------------ sessions
\* (mutant of LoginAccepts: the password is not compared)
LoginAccepts_any_password(us, email, password) ==
    \E u \in DOMAIN us : us[u].email = email

\* login: the row found by email passes "db_user.password != user.password".
LoginAccepts(us, email, password) ==
    \E u \in DOMAIN us : us[u].email = email /\ us[u].password = password

\* (mutant of EnsureCart: no cart is created)
EnsureCart_never(us, cs, sq, user_id) == [users |-> us, carts |-> cs, seq |-> sq]

\* "if not db_user.cart: Cart(user=db_user)": the user is given a new cart when
\* it has none; the tables and sequence after it.
EnsureCart(us, cs, sq, user_id) ==
    IF us[user_id].cart_id \in DOMAIN cs
    THEN [users |-> us, carts |-> cs, seq |-> sq]
    ELSE [users |-> [us EXCEPT ![user_id].cart_id = sq.cart],
          carts |-> cs @@ (sq.cart :> [total_price |-> 0]),
          seq   |-> [sq EXCEPT !.cart = @ + 1]]

\* POST /login/
Login(email, password) ==
    LET req == "login"
    IN
    IF UsersByEmail(email) = {}
    THEN Fail(req, 401, "Invalid email or password")
    ELSE IF ~LoginAccepts(users, email, password)
    THEN Fail(req, 401, "Invalid email or password")
    ELSE \E u \in UsersByEmail(email) :
         LET after == EnsureCart(users, carts, seq, u) IN
         /\ users' = after.users
         /\ carts' = after.carts
         /\ seq' = after.seq
         /\ UNCHANGED <<products, cartItems, orders, orderItems>>
         /\ Answer(req, Resp(200, "Login successful", NoCart))

\* (mutant of StoredPassword: the current password is written back)
StoredPassword_kept(current_password, new_password) == current_password

\* update_password: db_user.password = data.new_password
StoredPassword(current_password, new_password) == new_password

\* PUT /updatePassword/
\* UserPasswordUpdate.passwords_match rejects the request (422) before the
\* handler runs.
UpdatePassword(email, current_password, new_password, confirm_new_password) ==
    LET req == "update_password"
    IN
    IF confirm_new_password # new_password
    THEN Fail(req, 422, "New passwords do not match")
    ELSE IF UsersByCredentials(email, current_password) = {}
    THEN Fail(req, 401, "Invalid email or current password")
    ELSE \E u \in UsersByCredentials(email, current_password) :
         /\ users' = [users EXCEPT ![u].password =
                          StoredPassword(current_password, new_password)]
         /\ UNCHANGED <<carts, products, cartItems, orders, orderItems, seq>>
         /\ Answer(req, Resp(200, "Password updated successfully", NoCart))

\* Identity tokens a request can carry: for each email one that
\* id_token.verify_oauth2_token accepts, and one it rejects (ValueError).
Tokens ==
    {[email |-> e, verified |-> TRUE] : e \in Emails} \cup
    {[email |-> "a@x", verified |-> FALSE]}

\* (mutant of TokenAccepted: every token is taken as verified)
TokenAccepted_always(token) == TRUE

\* google_login: verify_oauth2_token returns the token's claims.
TokenAccepted(token) == token.verified

\* POST /google-login/
\* A new user is committed without a password, then its cart.
GoogleLogin(token) ==
    LET req == "google_login"
    IN
    IF ~TokenAccepted(token)
    THEN Fail(req, 401, "Invalid token")
    ELSE
    LET known   == UsersByEmail(token.email)
        user_id == IF known = {} THEN seq.user ELSE CHOOSE u \in known : TRUE
        us      == IF known = {}
                   THEN users @@ (seq.user :> [email |-> token.email,
                                               password |-> NoPassword,
                                               cart_id |-> NULL])
                   ELSE users
        sq      == IF known = {} THEN [seq EXCEPT !.user = @ + 1] ELSE seq
        after   == EnsureCart(us, carts, sq, user_id)
    IN
    /\ users' = after.users
    /\ carts' = after.carts
    /\ seq' = after.seq
    /\ UNCHANGED <<products, cartItems, orders, orderItems>>
    /\ Answer(req, Resp(200, "Login successful", NoCart))

\* ------------------------------------------------------------------ specification
\* Ids a request may name: every id handed out so far and one never handed out.
UserIds    == 1 .. seq.user
ProductIds == 1 .. seq.product
ItemIds    == 1 .. seq.item

\* The catalog and cart requests, with the two account requests that create
\* and remove the users they act for.
Next ==
    \/ \E e \in Emails, p \in Passwords, c \in Passwords : SignUp(e, p, c)
    \/ \E e \in Emails, p \in Passwords : DeleteUser(e, p)
    \/ \E pr \in Prices : CreateProduct(pr)
    \/ \E pid \in ProductIds, pr \in Prices : UpdateProduct(pid, pr)
    \/ \E pid \in ProductIds : DeleteProduct(pid)
    \/ \E u \in UserIds, pid \in ProductIds, q \in Quantities : AddToCart(u, pid, q)
    \/ \E q \in Quantities : UpdateCart(q)
    \/ \E u \in UserIds : GetCart(u)
    \/ \E i \in ItemIds, u \in UserIds, q \in Quantities : UpdateCartItem(i, u, q)
    \/ \E u \in UserIds : ResetCart(u)
    \/ \E i \in ItemIds, u \in UserIds : RemoveCartItem(i, u)
    \/ \E i \in ItemIds, u \in UserIds : IncrementCartItem(i, u)
    \/ \E i \in ItemIds, u \in UserIds : DecrementCartItem(i, u)

Spec == Init /\ [][Next]_vars

\* Every request the service answers.
NextProgram ==
    \/ Next
    \/ \E e \in Emails, p \in Passwords : Login(e, p)
    \/ \E t \in Tokens : GoogleLogin(t)
    \/ \E e \in Emails, p \in Passwords, n \in Passwords, c \in Passwords :
          UpdatePassword(e, p, n, c)

SpecProgram == Init /\ [][NextProgram]_vars

\* The store's one path that removes a cart and leaves its user: a session
\* outside the handlers deletes the user's cart row (as test_view_cart_cart_not_found
\* does).  The unit of work sets the owner's cart_id and the cart's items'
\* cart_id to NULL.
DirectDeleteCart(user_id) ==
    /\ user_id \in DOMAIN users
    /\ CartOf(user_id) # NULL
    /\ LET cart_id == CartOf(user_id) IN
       /\ carts' = Without(carts, cart_id)
       /\ users' = [users EXCEPT ![user_id].cart_id = NULL]
       /\ cartItems' = [i \in DOMAIN cartItems |->
              IF cartItems[i].cart_id = cart_id
              THEN [cartItems[i] EXCEPT !.cart_id = NULL]
              ELSE cartItems[i]]
    /\ UNCHANGED <<orders, orderItems, products, seq>>
    /\ Answer("direct_delete_cart", Resp(0, "", NoCart))

NextDirectDelete ==
    \/ Next
    \/ \E u \in UserIds : DirectDeleteCart(u)

\* The handlers, and carts deleted directly in the store.
SpecDirectDelete == Init /\ [][NextDirectDelete]_vars

\* The account requests, with the cart requests that take a user id alone and
\* carts deleted directly in the store.
NextAccount ==
    \/ \E e \in Emails, p \in Passwords, c \in Passwords : SignUp(e, p, c)
    \/ \E e \in Emails, p \in Passwords : Login(e, p)
    \/ \E t \in Tokens : GoogleLogin(t)
    \/ \E e \in Emails, p \in Passwords, n \in Passwords, c \in Passwords :
          UpdatePassword(e, p, n, c)
    \/ \E e \in Emails, p \in Passwords : DeleteUser(e, p)
    \/ \E u \in UserIds, pid \in ProductIds, q \in Quantities : AddToCart(u, pid, q)
    \/ \E u \in UserIds : GetCart(u)
    \/ \E u \in UserIds : ResetCart(u)
    \/ \E u \in UserIds : DirectDeleteCart(u)

SpecAccount == Init /\ [][NextAccount]_vars

NextOrders ==
    \/ NextAccount
    \/ \E e \in Emails, p \in Passwords : DeleteUserCommitFails(e, p)

\* The same requests on a store that holds orders, and commits that fail in
\* delete_user.
SpecOrders == InitOrders /\ [][NextOrders]_vars

\* ------------------------------------------------------------------ concurrent requests
\* Each request has its own session (get_db) and the store runs it at READ
\* COMMITTED: what a request has read stays in its ORM objects until it commits,
\* while other requests commit in between.  A request is split at its commits:
\* the first step reads, a later step flushes and commits what the handler
\* computed from what it read.

\* The requests that have read and not yet answered.
InFlight == {s \in Sessions : sessions[s].op # "idle"}

\* A new request is taken while the number of requests allows it.
Accepts(s) ==
    /\ sessions[s].op = "idle"
    /\ nops + Cardinality(InFlight) < MaxOps

\* The request of session s is answered and its session closed.
Finish(s, req, resp) ==
    /\ request' = req
    /\ response' = resp
    /\ nops' = nops + 1
    /\ sessions' = [sessions EXCEPT ![s] = Idle]

\* The request of session s goes on with what it holds in r.
Hold(s, r) ==
    /\ sessions' = [sessions EXCEPT ![s] = r]
    /\ UNCHANGED <<request, response, nops>>

\* add_to_cart up to its commit: the checks, and the rows the handler loads
\* (user, product, the user's cart, the cart's item for the product).
AddRead(s, user_id, product_id, quantity) ==
    LET req == "add_to_cart"
    IN
    /\ Accepts(s)
    /\ IF AddRejectsQuantity(quantity)
       THEN Fail(req, 400, "Quantity must be greater than zero")
       ELSE IF user_id \notin DOMAIN users
       THEN Fail(req, 404, "User not found")
       ELSE IF product_id \notin DOMAIN products
       THEN Fail(req, 404, "Product not found")
       ELSE IF CartOf(user_id) = NULL
       THEN Fail(req, 500, "AttributeError")
       ELSE
       LET cart_id  == CartOf(user_id)
           existing == {i \in ItemsOf(cartItems, cart_id) :
                           cartItems[i].product_id = product_id}
       IN
       /\ UNCHANGED db
       /\ \/ /\ existing # {}
             /\ \E i \in existing :
                   Hold(s, [op |-> req, cart_id |-> cart_id,
                            product_id |-> product_id, quantity |-> quantity,
                            price |-> products[product_id].price,
                            total |-> carts[cart_id].total_price,
                            item |-> i, item_quantity |-> cartItems[i].quantity])
          \/ /\ existing = {}
             /\ Hold(s, [op |-> req, cart_id |-> cart_id,
                         product_id |-> product_id, quantity |-> quantity,
                         price |-> products[product_id].price,
                         total |-> carts[cart_id].total_price,
                         item |-> NULL, item_quantity |-> 0])

\* (mutant of CommittedTotal: the store adds to the total it holds)
CommittedTotal_in_store(read, stored, quantity, price) ==
    AddTotal(stored, quantity, price)

\* "db_user.cart.total_price += ..." is computed on the loaded cart and flushed
\* as UPDATE cart SET total_price = <value>: the total written is built on the
\* total the request read, whatever the store holds by then.
CommittedTotal(read, stored, quantity, price) == AddTotal(read, quantity, price)

\* add_to_cart from db.commit() on: the item is inserted, or updated to the
\* quantity computed from the one read, the cart total is written, and the cart
\* is returned under response_model=CartResponse.
AddCommit(s) ==
    /\ sessions[s].op = "add_to_cart"
    /\ LET r     == sessions[s]
           q     == AddQuantity(r.item_quantity, r.quantity)
           items == IF r.item = NULL
                    THEN cartItems @@ (seq.item :>
                            [cart_id |-> r.cart_id, product_id |-> r.product_id,
                             quantity |-> r.quantity, price |-> r.price,
                             total_price |-> Subtotal(r.quantity, r.price)])
                    ELSE [cartItems EXCEPT ![r.item].quantity = q,
                                           ![r.item].total_price = Subtotal(q, r.price)]
           cs    == [carts EXCEPT ![r.cart_id].total_price =
                        CommittedTotal(r.total, @, r.quantity, r.price)]
       IN
       /\ cartItems' = items
       /\ carts' = cs
       /\ seq' = IF r.item = NULL THEN [seq EXCEPT !.item = @ + 1] ELSE seq
       /\ UNCHANGED <<users, products, orders, orderItems>>
       /\ Finish(s, "add_to_cart",
                 IF ItemResponseFails(items, r.cart_id)
                 THEN Resp(500, "ResponseValidationError", NoCart)
                 ELSE Resp(200, "", CartBody(cs, items, r.cart_id)))

\* (mutant of UniqueViolation: the column is not unique)
UniqueViolation_none(email) == FALSE

\* User.email is unique=True: inserting a second row with an email the table
\* holds raises IntegrityError at the commit.
UniqueViolation(email) == UsersByEmail(email) # {}

\* sign_up up to its first commit: the validator and the lookup by email.
SignUpCheck(s, email, password, confirm) ==
    LET req == "sign_up"
    IN
    /\ Accepts(s)
    /\ IF ~PasswordsMatch(password, confirm)
       THEN Fail(req, 422, "Passwords do not match")
       ELSE IF EmailRegistered(email)
       THEN Fail(req, 400, "Email already registered")
       ELSE /\ UNCHANGED db
            /\ Hold(s, [op |-> req, stage |-> "user", email |-> email,
                        password |-> password, user_id |-> NULL])

\* google_login up to its first commit: the token and the lookup by email.  A
\* user that exists is given a cart when it has none and the request is answered.
GoogleCheck(s, token) ==
    LET req == "google_login"
    IN
    /\ Accepts(s)
    /\ IF ~TokenAccepted(token)
       THEN Fail(req, 401, "Invalid token")
       ELSE IF UsersByEmail(token.email) # {}
       THEN \E u \in UsersByEmail(token.email) :
            LET after == EnsureCart(users, carts, seq, u) IN
            /\ users' = after.users
            /\ carts' = after.carts
            /\ seq' = after.seq
            /\ UNCHANGED <<products, cartItems, orders, orderItems>>
            /\ Answer(req, Resp(200, "Login successful", NoCart))
       ELSE /\ UNCHANGED db
            /\ Hold(s, [op |-> req, stage |-> "user", email |-> token.email,
                        password |-> NoPassword, user_id |-> NULL])

\* The commit of the new user row, in sign_up and in google_login.  sign_up
\* catches the IntegrityError, rolls back and answers 400; google_login catches
\* ValueError only, and the request is answered 500.
CommitUser(s) ==
    /\ sessions[s].op \in {"sign_up", "google_login"}
    /\ sessions[s].stage = "user"
    /\ LET r == sessions[s] IN
       IF UniqueViolation(r.email)
       THEN /\ UNCHANGED db
            /\ Finish(s, r.op,
                      IF r.op = "sign_up"
                      THEN Resp(400, "Could not create user due to integrity error", NoCart)
                      ELSE Resp(500, "IntegrityError", NoCart))
       ELSE /\ users' = users @@ (seq.user :>
                   [email |-> r.email, password |-> r.password, cart_id |-> NULL])
            /\ seq' = [seq EXCEPT !.user = @ + 1]
            /\ UNCHANGED <<carts, products, cartItems, orders, orderItems>>
            /\ Hold(s, [r EXCEPT !.stage = "cart", !.user_id = seq.user])

\* The commit of the new user's cart, in sign_up ("if not new_user.cart") and
\* in google_login, and the answer.
CommitCart(s) ==
    /\ sessions[s].op \in {"sign_up", "google_login"}
    /\ sessions[s].stage = "cart"
    /\ LET r     == sessions[s]
           \* google_login adds Cart(user=db_user) without a look at db_user.cart
           after == IF r.op = "sign_up"
                    THEN EnsureCart(users, carts, seq, r.user_id)
                    ELSE [users |-> [users EXCEPT ![r.user_id].cart_id = seq.cart],
                          carts |-> carts @@ (seq.cart :> [total_price |-> 0]),
                          seq   |-> [seq EXCEPT !.cart = @ + 1]]
       IN
       /\ users' = after.users
       /\ carts' = after.carts
       /\ seq' = after.seq
       /\ UNCHANGED <<products, cartItems, orders, orderItems>>
       /\ Finish(s, r.op,
                 Resp(200, IF r.op = "sign_up" THEN "" ELSE "Login successful", NoCart))

NextConcurrent ==
    \E s \in Sessions :
        \/ \E u \in UserIds, p \in ProductIds, q \in Quantities : AddRead(s, u, p, q)
        \/ AddCommit(s)
        \/ \E e \in Emails, p, c \in Passwords : SignUpCheck(s, e, p, c)
        \/ \E t \in Tokens : GoogleCheck(s, t)
        \/ CommitUser(s)
        \/ CommitCart(s)

SpecConcurrent == Init /\ [][NextConcurrent]_vars

\* ------------------------------------------------------------------ claims
\* A request committed a change to the store.
Committed == db' # db

\* The items of cart c that reference product p.
ItemsFor(items, c, p) == {i \in ItemsOf(items, c) : items[i].product_id = p}

\* C1: for every cart, the stored total_price equals the sum of total_price
\* over the cart items currently in that cart.
CartTotalEqualsItemSum ==
    \A c \in DOMAIN carts :
        carts[c].total_price = SumTotals(cartItems, ItemsOf(cartItems, c))

\* C2: every cart item satisfies total_price = quantity * price, price being the
\* unit price captured on the item when it was created.
ItemTotalIsQuantityTimesCapturedPrice ==
    \A i \in DOMAIN cartItems :
        cartItems[i].total_price = cartItems[i].quantity * cartItems[i].price

\* C3: add(u, p, q1) followed by add(u, p, q2), q1 > 0 and q2 > 0, on a cart
\* that held no item for p leaves exactly one item for p in u's cart, with
\* quantity q1 + q2 and total_price (q1 + q2) * the product's price.  Stated per
\* add: a committed add leaves exactly one item for p; the first one creates it
\* with quantity q1, the second one keeps that row and makes its quantity the
\* old quantity + q2 and its total_price the new quantity * the product's price.
AddTwiceMergesIntoOneItem ==
    [][\A u \in UserIds, p \in ProductIds, q \in Quantities :
        (AddToCart(u, p, q) /\ Committed) =>
            LET c      == CartOf(u)
                before == ItemsFor(cartItems, c, p)
                after  == ItemsFor(cartItems', c, p)
            IN  /\ Cardinality(after) = 1
                /\ before = {} =>
                     \A i \in after : /\ i \notin DOMAIN cartItems
                                      /\ cartItems'[i].quantity = q
                /\ before # {} =>
                     /\ after = before
                     /\ DOMAIN cartItems' = DOMAIN cartItems
                     /\ \A i \in after :
                          cartItems'[i].quantity = cartItems[i].quantity + q
                /\ \A i \in after :
                     cartItems'[i].total_price =
                         cartItems'[i].quantity * products[p].price
      ]_vars

\* C3 witness: an add has just raised an existing item to quantity 3 or more
\* (an item is created with quantity at most 2).
AddTwiceReached ==
    /\ request = "add_to_cart"
    /\ \E u \in DOMAIN users, i \in DOMAIN cartItems :
        /\ cartItems[i].cart_id = users[u].cart_id
        /\ cartItems[i].quantity = 3
        /\ cartItems[i].total_price = 3 * products[cartItems[i].product_id].price

\* C4: add(u, p, q) with q > 0, u an existing user whose cart holds no item for
\* the existing product p, succeeds, creates exactly one item (quantity q, price
\* p's current price, total_price q * price), raises the cart total by exactly
\* q * price, and returns the cart showing that item.
AddNewItemSucceedsAndReturnsCart ==
    [][\A u \in UserIds, p \in ProductIds, q \in Quantities :
        (/\ AddToCart(u, p, q)
         /\ q > 0
         /\ u \in DOMAIN users
         /\ p \in DOMAIN products
         /\ CartOf(u) # NULL
         /\ ItemsFor(cartItems, CartOf(u), p) = {}) =>
            LET c     == CartOf(u)
                price == products[p].price
                new   == DOMAIN cartItems' \ DOMAIN cartItems
            IN  /\ response'.status = 200
                /\ Cardinality(new) = 1
                /\ \A i \in DOMAIN cartItems : cartItems'[i] = cartItems[i]
                /\ \A i \in new :
                     /\ cartItems'[i] = [cart_id |-> c, product_id |-> p,
                                         quantity |-> q, price |-> price,
                                         total_price |-> q * price]
                     /\ \E row \in response'.cart.items :
                          /\ row.id = i
                          /\ row.product_id = p
                          /\ row.quantity = q
                          /\ row.total_price = q * price
                /\ carts'[c].total_price = carts[c].total_price + q * price
      ]_vars

\* C5: add fails with a validation error (400) whenever quantity <= 0, whatever
\* the ids; with "User not found" when quantity > 0 and the user does not exist,
\* whatever the product id; with "Product not found" when the user exists and
\* the product does not; and none of these failures changes the store.
AddFailuresChangeNothing ==
    [][\A u \in UserIds, p \in ProductIds, q \in Quantities :
        AddToCart(u, p, q) =>
            /\ q <= 0 =>
                 /\ response'.status = 400
                 /\ response'.detail = "Quantity must be greater than zero"
                 /\ UNCHANGED db
            /\ (q > 0 /\ u \notin DOMAIN users) =>
                 /\ response'.status = 404
                 /\ response'.detail = "User not found"
                 /\ UNCHANGED db
            /\ (q > 0 /\ u \in DOMAIN users /\ p \notin DOMAIN products) =>
                 /\ response'.status = 404
                 /\ response'.detail = "Product not found"
                 /\ UNCHANGED db
      ]_vars

\* C5 witness: an add was refused for its quantity in a store that holds a
\* user, a product and a cart item.
AddRefusedReached ==
    /\ request = "add_to_cart"
    /\ response.status = 400
    /\ DOMAIN users # {}
    /\ DOMAIN products # {}
    /\ DOMAIN cartItems # {}

\* C6: update(item_id, user_id, n) with n > 0 on an existing item of the user's
\* cart succeeds, sets the item's quantity to exactly n, its total_price to
\* n * the product's price, the cart total to the sum of the cart's item
\* subtotals, and returns the updated cart.
UpdateOverwritesAndReturnsCart ==
    [][\A i \in ItemIds, u \in UserIds, n \in Quantities :
        (/\ UpdateCartItem(i, u, n)
         /\ n > 0
         /\ i \in DOMAIN cartItems
         /\ u \in DOMAIN users
         /\ CartOf(u) # NULL
         /\ cartItems[i].cart_id = CartOf(u)
         /\ cartItems[i].product_id \in DOMAIN products) =>
            LET c == CartOf(u) IN
            /\ response'.status = 200
            /\ cartItems'[i].quantity = n
            /\ cartItems'[i].total_price = n * products[cartItems[i].product_id].price
            /\ carts'[c].total_price = SumTotals(cartItems', ItemsOf(cartItems', c))
            /\ response'.cart.id = c
            /\ response'.cart.total_price = carts'[c].total_price
            /\ \E row \in response'.cart.items : row.id = i /\ row.quantity = n
      ]_vars

\* What update_cart_item looks up is missing.
UpdateTargetMissing(i, u) ==
    \/ i \notin DOMAIN cartItems
    \/ u \notin DOMAIN users
    \/ CartOf(u) = NULL
    \/ cartItems[i].product_id \notin DOMAIN products

\* C7: update(item_id, user_id, n) fails with NotFound (404) when the item, the
\* user, the user's cart or the item's product is missing, and with a validation
\* error (400) when n <= 0 and nothing is missing; such a failure changes no
\* row of the store, and no update deletes an item.
UpdateFailuresChangeNothing ==
    [][\A i \in ItemIds, u \in UserIds, n \in Quantities :
        UpdateCartItem(i, u, n) =>
            /\ UpdateTargetMissing(i, u) =>
                 /\ response'.status = 404
                 /\ UNCHANGED db
            /\ (~UpdateTargetMissing(i, u) /\ n <= 0) =>
                 /\ response'.status = 400
                 /\ response'.detail = "Invalid quantity"
                 /\ UNCHANGED db
            /\ DOMAIN cartItems' = DOMAIN cartItems
      ]_vars

\* C7 witness: an update was refused because the user's cart is missing, in a
\* store that holds an item.
UpdateRefusedCartMissingReached ==
    /\ request = "update_cart_item"
    /\ response.status = 404
    /\ response.detail = "Cart not found"
    /\ DOMAIN cartItems # {}
    /\ \E u \in DOMAIN users : users[u].cart_id = NULL

\* C8: increment raises the item's quantity by exactly 1, and decrement on an
\* item with quantity > 1 lowers it by exactly 1; the item's subtotal becomes the
\* new quantity * the product's price, the user's cart total becomes the sum of
\* its items' subtotals, and the cart holds as many items as before.
IncrementDecrementByOne ==
    [][\A i \in ItemIds, u \in UserIds :
        LET c    == CartOf(u)
            post(delta) ==
                /\ cartItems'[i].quantity = cartItems[i].quantity + delta
                /\ cartItems'[i].total_price =
                       cartItems'[i].quantity * products[cartItems[i].product_id].price
                /\ carts'[c].total_price = SumTotals(cartItems', ItemsOf(cartItems', c))
                /\ DOMAIN cartItems' = DOMAIN cartItems
                /\ \A d \in DOMAIN carts :
                       Cardinality(ItemsOf(cartItems', d)) =
                       Cardinality(ItemsOf(cartItems, d))
        IN
        /\ (IncrementCartItem(i, u) /\ response'.status = 200) => post(1)
        /\ (/\ DecrementCartItem(i, u)
            /\ response'.status = 200
            /\ cartItems[i].quantity > 1) => post(-1)
      ]_vars

\* C8 witness: a decrement has just lowered the only item ever created from
\* quantity 3 to 2, and its cart total was resummed.
DecrementedReached ==
    /\ request = "decrement_cart_item"
    /\ response.status = 200
    /\ seq.item = 2
    /\ \E row \in response.cart.items :
        /\ row.quantity = 2
        /\ row.total_price = 2 * products[row.product_id].price
        /\ response.cart.total_price = row.total_price

\* C9: decrement on an item whose quantity is 1 is a no-op: the item is not
\* deleted, its quantity stays 1, its subtotal and every cart total are
\* unchanged, so any number of further decrements gives the same store.
DecrementAtOneIsNoOp ==
    [][\A i \in ItemIds, u \in UserIds :
        (/\ DecrementCartItem(i, u)
         /\ i \in DOMAIN cartItems
         /\ cartItems[i].quantity = 1) =>
            /\ UNCHANGED db
            /\ i \in DOMAIN cartItems'
            /\ cartItems'[i].quantity = 1
      ]_vars

\* C9 witness: a decrement was answered 200 on the store's only item, whose
\* quantity is 1 and whose subtotal is not the product's current price: a
\* decrement that had changed the item would have recomputed it.
DecrementAtOneReached ==
    /\ request = "decrement_cart_item"
    /\ response.status = 200
    /\ seq.item = 2
    /\ DOMAIN cartItems = {1}
    /\ cartItems[1].quantity = 1
    /\ cartItems[1].total_price # products[cartItems[1].product_id].price

\* C10: remove deletes the item row and subtracts its subtotal from the cart
\* total; when the removed item was the last item of the user's cart, the cart
\* is left with total_price 0 and no items.
RemoveLastItemLeavesZeroTotal ==
    [][\A i \in ItemIds, u \in UserIds :
        (/\ RemoveCartItem(i, u)
         /\ response'.status = 200
         /\ ItemsOf(cartItems, CartOf(u)) = {i}) =>
            /\ i \notin DOMAIN cartItems'
            /\ ItemsOf(cartItems', CartOf(u)) = {}
            /\ response'.cart.items = {}
            /\ carts'[CartOf(u)].total_price = 0
            /\ response'.cart.total_price = 0
      ]_vars

\* C11: reset_cart for a user with a cart deletes every cart item of that cart and
\* sets its total_price to 0, whatever the cart held, and leaves every other cart,
\* every other cart's items and totals, the users and the products as they were;
\* for a missing user or a user without a cart it answers 404 and changes nothing.
ResetClearsOwnCartOnly ==
    [][\A u \in UserIds :
        ResetCart(u) =>
            IF u \in DOMAIN users /\ CartOf(u) # NULL
            THEN LET c    == CartOf(u)
                     mine == ItemsOf(cartItems, c)
                 IN  /\ response'.status = 200
                     /\ ItemsOf(cartItems', c) = {}
                     /\ DOMAIN cartItems' = DOMAIN cartItems \ mine
                     /\ \A i \in DOMAIN cartItems' : cartItems'[i] = cartItems[i]
                     /\ DOMAIN carts' = DOMAIN carts
                     /\ carts'[c].total_price = 0
                     /\ \A d \in DOMAIN carts \ {c} : carts'[d] = carts[d]
                     /\ UNCHANGED <<users, products>>
            ELSE /\ response'.status = 404
                 /\ UNCHANGED db
      ]_vars

\* C11 witness: two users each added an item, then one of the two carts was
\* reset: the other cart's item and total are still there.
ResetBesideOtherCartReached ==
    /\ request = "reset_cart"
    /\ response.status = 200
    /\ nops = 3
    /\ seq.item = 3
    /\ Cardinality(DOMAIN cartItems) = 1
    /\ \E u \in DOMAIN users :
          /\ ItemsOf(cartItems, CartOf(u)) # {}
          /\ carts[CartOf(u)].total_price > 0

\* The item row with id i as a response shows it.
RowOf(items, i) ==
    [id |-> i, product_id |-> items[i].product_id, quantity |-> items[i].quantity,
     price |-> items[i].price, total_price |-> items[i].total_price]

\* C12: get_cart answers 404 when the user or the user's cart is missing;
\* otherwise it answers 200 with the cart's id, every cart item of the cart as
\* the store holds it, listed once each in ascending item-id order, and a total
\* equal to the sum of the listed items' total_price; it never changes the store.
ViewListsCartInIdOrder ==
    [][\A u \in UserIds :
        GetCart(u) =>
            /\ UNCHANGED db
            /\ IF u \notin DOMAIN users \/ CartOf(u) = NULL
               THEN response'.status = 404
               ELSE LET b    == response'.cart
                        mine == ItemsOf(cartItems, CartOf(u))
                    IN  /\ response'.status = 200
                        /\ b.id = CartOf(u)
                        /\ {b.order[k] : k \in DOMAIN b.order} = mine
                        /\ Len(b.order) = Cardinality(mine)
                        /\ \A j, k \in DOMAIN b.order : j < k => b.order[j] < b.order[k]
                        /\ b.items = {RowOf(cartItems, i) : i \in mine}
                        /\ b.total_price = SumTotals(cartItems, mine)
      ]_vars

\* C12 witness: a cart holding two items was viewed.
ViewOfTwoItemsReached ==
    /\ request = "get_cart"
    /\ response.status = 200
    /\ Len(response.cart.order) = 2
    /\ Cardinality(response.cart.items) = 2

\* C13: sign_up with confirm_password different from password is always answered
\* with the validation failure (422) and creates no user row and no cart (the
\* store is unchanged), whether or not the email is already registered.
SignupMismatchCreatesNothing ==
    [][\A e \in Emails, p \in Passwords, c \in Passwords :
        (SignUp(e, p, c) /\ c # p) =>
            /\ response'.status = 422
            /\ UNCHANGED db
      ]_vars

\* C13 witness: a sign_up was refused with 422 in a store where every email a
\* request can name is registered.
SignupMismatchOnRegisteredEmailReached ==
    /\ request = "sign_up"
    /\ response.status = 422
    /\ \A e \in Emails : UsersByEmail(e) # {}

\* C14 as stated: sign_up with an email that is already registered always fails
\* with Conflict (400), and the store is unchanged.
DuplicateSignupAlwaysConflict ==
    [][\A e \in Emails, p \in Passwords, c \in Passwords :
        (SignUp(e, p, c) /\ UsersByEmail(e) # {}) =>
            /\ response'.status = 400
            /\ UNCHANGED db
      ]_vars

\* C14: sign_up with an email that is already registered never creates a second
\* user and leaves every row unchanged (so the original user's id, password, cart,
\* items and total); it fails with Conflict (400, "Email already registered") when
\* the confirmation matches the password and with the validation failure (422)
\* when it does not.
DuplicateSignupRefused ==
    [][\A e \in Emails, p \in Passwords, c \in Passwords :
        (SignUp(e, p, c) /\ UsersByEmail(e) # {}) =>
            /\ UNCHANGED db
            /\ Cardinality(UsersByEmail(e)') = 1
            /\ IF c = p
               THEN /\ response'.status = 400
                    /\ response'.detail = "Email already registered"
               ELSE response'.status = 422
      ]_vars

\* C14 witness: a sign_up was refused with 400 in a store where every email a
\* request can name belongs to a user whose cart holds an item.
DuplicateSignupReached ==
    /\ request = "sign_up"
    /\ response.status = 400
    /\ \A e \in Emails : \E u \in UsersByEmail(e) : ItemsOf(cartItems, CartOf(u)) # {}

\* C15: login answers 401 and changes nothing when the email is not registered or
\* the password differs from the stored one; otherwise it answers 200 and the user
\* owns a cart afterwards: a user that had a cart keeps it and the store is
\* unchanged (cart, items and total as they were), a user that had none is given
\* a new empty cart and nothing else changes.
LoginRefusesOrEnsuresCart ==
    [][\A e \in Emails, p \in Passwords :
        Login(e, p) =>
            IF UsersByCredentials(e, p) = {}
            THEN /\ response'.status = 401
                 /\ UNCHANGED db
            ELSE \A u \in UsersByEmail(e) :
                 /\ response'.status = 200
                 /\ u \in DOMAIN users'
                 /\ users'[u].cart_id \in DOMAIN carts'
                 /\ IF CartOf(u) # NULL
                    THEN UNCHANGED db
                    ELSE LET c == users'[u].cart_id
                         IN  /\ c \notin DOMAIN carts
                             /\ carts' = carts @@ (c :> [total_price |-> 0])
                             /\ users' = [users EXCEPT ![u].cart_id = c]
                             /\ ItemsOf(cartItems', c) = {}
                             /\ UNCHANGED <<products, cartItems, orders, orderItems>>
      ]_vars

\* C15 witness: the second request of a behaviour was a login answered 200 that
\* created a cart for an existing user (a cart more than users were created):
\* the first request deleted the user's cart directly.
LoginCreatedCartReached ==
    /\ request = "login"
    /\ response.status = 200
    /\ nops = 2
    /\ seq.cart > seq.user
    /\ \A u \in DOMAIN users : CartOf(u) # NULL

\* C16: update_password answers 422 when confirm_new_password differs from
\* new_password and 401 when (email, current_password) matches no user, and then
\* changes nothing (the stored password included); when it answers 200 only that
\* user's password has changed, a login with (email, new_password) is accepted
\* and, when new_password differs from current_password, a login with
\* (email, current_password) is refused (login answers 200 exactly for the pairs
\* it accepts).
PasswordUpdateTakesEffect ==
    [][/\ \A e \in Emails, p \in Passwords :
          Login(e, p) =>
              response'.status = IF LoginAccepts(users, e, p) THEN 200 ELSE 401
       /\ \A e \in Emails, cur \in Passwords, new \in Passwords, conf \in Passwords :
        UpdatePassword(e, cur, new, conf) =>
            IF conf # new
            THEN /\ response'.status = 422
                 /\ UNCHANGED db
            ELSE IF UsersByCredentials(e, cur) = {}
            THEN /\ response'.status = 401
                 /\ UNCHANGED db
            ELSE /\ response'.status = 200
                 /\ LoginAccepts(users', e, new)
                 /\ new # cur => ~LoginAccepts(users', e, cur)
                 /\ DOMAIN users' = DOMAIN users
                 /\ \A u \in DOMAIN users :
                       /\ users'[u].email = users[u].email
                       /\ users'[u].cart_id = users[u].cart_id
                       /\ users[u].email # e => users'[u] = users[u]
                 /\ UNCHANGED <<carts, products, cartItems, orders, orderItems, seq>>
      ]_vars

\* C16 witness: the first request of a behaviour changed the password of user 1
\* from the "pw1" it signed up with to "pw2".
PasswordChangedReached ==
    /\ request = "update_password"
    /\ response.status = 200
    /\ nops = 1
    /\ 1 \in DOMAIN users
    /\ users[1].password = "pw2"
    /\ LoginAccepts(users, users[1].email, "pw2")
    /\ ~LoginAccepts(users, users[1].email, "pw1")

\* C17: delete_user with a matching (email, password) answered 200 has removed
\* the user, the user's cart, every order of the user and every order item of
\* those orders, and nothing of another user; answered otherwise (401 for a pair
\* that matches no user, 500 for a commit that failed) it has removed nothing.
\* While the user id or the email is absent, login answers 401 and get_cart,
\* reset_cart and add_to_cart (with a valid quantity) for that user id answer 404,
\* and change nothing.
DeleteIsAllOrNothing ==
    [][/\ \A e \in Emails, p \in Passwords :
          (DeleteUser(e, p) \/ DeleteUserCommitFails(e, p)) =>
              IF response'.status = 200
              THEN \E u \in UsersByCredentials(e, p) :
                   LET c  == users[u].cart_id
                       os == {o \in DOMAIN orders : orders[o].user_id = u}
                   IN  /\ users' = Without(users, u)
                       /\ carts' = Without(carts, c)
                       /\ orders' = [o \in DOMAIN orders \ os |-> orders[o]]
                       /\ orderItems' =
                            [i \in {j \in DOMAIN orderItems :
                                       orderItems[j].order_id \notin os}
                             |-> orderItems[i]]
                       /\ UsersByEmail(e)' = {}
              ELSE /\ response'.status =
                        IF UsersByCredentials(e, p) = {} THEN 401 ELSE 500
                   /\ UNCHANGED db
       /\ \A e \in Emails, p \in Passwords :
          (Login(e, p) /\ UsersByEmail(e) = {}) =>
              /\ response'.status = 401
              /\ UNCHANGED db
       /\ \A u \in UserIds :
          (/\ u \notin DOMAIN users
           /\ \/ GetCart(u)
              \/ ResetCart(u)
              \/ \E pid \in ProductIds, q \in Quantities : q > 0 /\ AddToCart(u, pid, q)) =>
              /\ response'.status = 404
              /\ UNCHANGED db
      ]_vars

\* C17 witness: user 1 was deleted from the store that holds orders: its cart,
\* its order and the order's two items are gone, user 2 keeps its own.
DeletedWithOrdersReached ==
    /\ request = "delete_user"
    /\ response.status = 200
    /\ DOMAIN users = {2}
    /\ DOMAIN carts = {2}
    /\ DOMAIN orders = {2}
    /\ DOMAIN orderItems = {3}

\* C18: google_login with a token that fails verification answers 401 and creates
\* no user and no cart (the store is unchanged); with a verified token it answers
\* 200, creates a user for the token's email, with no password, only when no
\* user has that email, leaves exactly one user with that email, changes no other
\* user and no existing cart or item, and leaves that user owning a cart.
FederatedLoginCreatesAtMostOneUser ==
    [][\A t \in Tokens :
        GoogleLogin(t) =>
            IF ~t.verified
            THEN /\ response'.status = 401
                 /\ UNCHANGED db
            ELSE /\ response'.status = 200
                 /\ Cardinality(UsersByEmail(t.email)') = 1
                 /\ \A u \in UsersByEmail(t.email)' :
                       /\ users'[u].cart_id \in DOMAIN carts'
                       /\ u \notin DOMAIN users =>
                            /\ UsersByEmail(t.email) = {}
                            /\ users'[u].password = NoPassword
                            /\ users'[u].cart_id \notin DOMAIN carts
                       /\ u \in DOMAIN users =>
                            /\ users'[u].password = users[u].password
                            /\ CartOf(u) # NULL => users'[u].cart_id = CartOf(u)
                 /\ DOMAIN users' \ UsersByEmail(t.email)' = DOMAIN users \ UsersByEmail(t.email)
                 /\ \A u \in DOMAIN users : users[u].email # t.email => users'[u] = users[u]
                 /\ \A c \in DOMAIN carts : c \in DOMAIN carts' /\ carts'[c] = carts[c]
                 /\ Cardinality(DOMAIN carts') <= Cardinality(DOMAIN carts) + 1
                 /\ UNCHANGED <<products, cartItems, orders, orderItems>>
      ]_vars

\* C18 witness: a federated login was answered 200 and the store holds a user
\* without a password who owns a cart.
FederatedUserReached ==
    /\ request = "google_login"
    /\ response.status = 200
    /\ \E u \in DOMAIN users :
          /\ users[u].password = NoPassword
          /\ CartOf(u) # NULL
          /\ u = seq.user - 1

\* C19: in every state the requests reach when they run one at a time, every
\* user owns a cart that exists, and every cart is owned by exactly one user (so
\* no two users own the same cart).
OneCartPerUser ==
    /\ \A u \in DOMAIN users : users[u].cart_id \in DOMAIN carts
    /\ \A c \in DOMAIN carts :
          Cardinality({u \in DOMAIN users : users[u].cart_id = c}) = 1

\* C19 witness: three requests were served, user 1 has been deleted and a user
\* created by a federated login is in the store.
DeletedAndFederatedReached ==
    /\ nops = 3
    /\ seq.user > 3
    /\ 1 \notin DOMAIN users
    /\ \E u \in DOMAIN users : users[u].password = NoPassword

\* C20: add_to_cart for a user who exists without a cart (with a valid quantity
\* and an existing product) gives the user a cart and adds the item to it.
AddCreatesMissingCart ==
    [][\A u \in UserIds, pid \in ProductIds, q \in Quantities :
        (/\ AddToCart(u, pid, q)
         /\ q > 0
         /\ u \in DOMAIN users
         /\ pid \in DOMAIN products
         /\ CartOf(u) = NULL) =>
            /\ users'[u].cart_id \in DOMAIN carts'
            /\ \E i \in DOMAIN cartItems' :
                  /\ cartItems'[i].cart_id = users'[u].cart_id
                  /\ cartItems'[i].product_id = pid
                  /\ cartItems'[i].quantity = q
      ]_vars

\* C21: delete_product for an id that exists is answered 200 also when cart
\* items reference the product, removes the product row only and leaves every
\* cart item and every cart total unchanged; for an id that does not exist it is
\* answered 404 and changes nothing.
DeleteProductKeepsItems ==
    [][\A pid \in ProductIds :
        DeleteProduct(pid) =>
            IF pid \in DOMAIN products
            THEN /\ response'.status = 200
                 /\ products' = Without(products, pid)
                 /\ UNCHANGED <<users, carts, cartItems, orders, orderItems>>
            ELSE /\ response'.status = 404
                 /\ UNCHANGED db
      ]_vars

\* C23: in every reachable state every cart item has a quantity of at least
\* one, whatever integer quantities add, update, increment, decrement, remove
\* and reset were called with.
QuantitiesStayPositive ==
    \A i \in DOMAIN cartItems : cartItems[i].quantity >= 1

\* C23 witness: an update with a quantity of zero or less was refused while an
\* item of quantity one was in the store.
NonPositiveUpdateRefusedReached ==
    /\ request = "update_cart_item"
    /\ response.status = 400
    /\ \E i \in DOMAIN cartItems : cartItems[i].quantity = 1

\* C24: update, increment, decrement and remove called with user_id u and an
\* item that belongs to another user's cart change neither that item nor any
\* cart: the other user's cart and the total of u's cart stay as they were.
CartOperationsTouchOwnCartOnly ==
    [][\A i \in ItemIds, u \in UserIds :
        /\ \/ \E q \in Quantities : UpdateCartItem(i, u, q)
           \/ IncrementCartItem(i, u)
           \/ DecrementCartItem(i, u)
           \/ RemoveCartItem(i, u)
        /\ i \in DOMAIN cartItems
        /\ u \in DOMAIN users
        /\ CartOf(u) # NULL
        /\ cartItems[i].cart_id \in DOMAIN carts \ {CartOf(u)}
        => /\ i \in DOMAIN cartItems'
           /\ cartItems'[i] = cartItems[i]
           /\ carts' = carts
      ]_vars

\* C25: the equality of a cart's total with the sum of its items' subtotals
\* survives catalog price changes: an add that commits on a cart whose total
\* equalled that sum leaves the total equal to the sum, whatever update_product
\* did to the product's price since the item was created.
AddKeepsTotalAfterPriceChange ==
    [][\A u \in UserIds, p \in ProductIds, q \in Quantities :
        /\ AddToCart(u, p, q)
        /\ Committed
        /\ carts[CartOf(u)].total_price = CartSum(cartItems, CartOf(u))
        => carts'[CartOf(u)].total_price = CartSum(cartItems', CartOf(u))
      ]_vars

\* C26: every request that is answered with an error (a 4xx or 5xx status,
\* the failure to build the response included) leaves users, carts, cart items
\* and products as they were before the request.
ErrorsChangeNothing ==
    [][(nops' = nops + 1 /\ response'.status >= 400)
        => UNCHANGED <<users, carts, cartItems, products>>
      ]_vars

\* C29: every cart item in every reachable state belongs to a cart that exists;
\* after a user is deleted no item of that user's cart remains in the store.
EveryItemBelongsToACart ==
    \A i \in DOMAIN cartItems : cartItems[i].cart_id \in DOMAIN carts

\* The email belongs to a user stored with no password (created by google_login).
Federated(email) == \E u \in UsersByEmail(email) : users[u].password = NoPassword

\* C27 as stated: for the email of a user stored with no password, login,
\* delete_user and update_password are answered 401 whatever passwords they
\* carry, and change nothing.
FederatedUserAlwaysAuthError ==
    [][\A e \in Emails : Federated(e) =>
        /\ \A p \in Passwords :
              (Login(e, p) \/ DeleteUser(e, p)) =>
                  response'.status = 401 /\ UNCHANGED db
        /\ \A p, n, c \in Passwords :
              UpdatePassword(e, p, n, c) =>
                  response'.status = 401 /\ UNCHANGED db
      ]_vars

\* C27: for the email of a user stored with no password, login and delete_user
\* are answered 401 whatever password they carry, update_password is answered
\* 422 when the new password and its confirmation differ and 401 otherwise, and
\* none of them changes the store: the user and their cart are neither removed
\* nor modified.
FederatedUserNeverPassesPasswordCheck ==
    [][\A e \in Emails : Federated(e) =>
        /\ \A p \in Passwords :
              (Login(e, p) \/ DeleteUser(e, p)) =>
                  response'.status = 401 /\ UNCHANGED db
        /\ \A p, n, c \in Passwords :
              UpdatePassword(e, p, n, c) =>
                  /\ response'.status = IF c = n THEN 401 ELSE 422
                  /\ UNCHANGED db
      ]_vars

\* C27 witness: every email belongs to a user stored with no password who owns
\* a cart, and a delete_user request has just been refused with 401.
FederatedDeleteRefusedReached ==
    /\ request = "delete_user"
    /\ response.status = 401
    /\ \A e \in Emails : \E u \in UsersByEmail(e) :
          users[u].password = NoPassword /\ CartOf(u) # NULL

EmailsStayUnique ==
    /\ [](\A u, v \in DOMAIN users : users[u].email = users[v].email => u = v)
    /\ [][\A s \in Sessions :
            (CommitUser(s) /\ UsersByEmail(sessions[s].email) # {})
            => /\ UNCHANGED db
               /\ sessions[s].op = "sign_up" => response'.status = 400
         ]_vars

\* C28 witness: a sign_up that had found its email free lost the race against a
\* google_login for the same email: it was answered 400 at its commit, and the
\* one user in the store is the one the federated login created.
SignupLostRaceReached ==
    /\ request = "sign_up"
    /\ response.status = 400
    /\ response.detail = "Could not create user due to integrity error"
    /\ Cardinality(DOMAIN users) = 1
    /\ \A u \in DOMAIN users : users[u].password = NoPassword

\* C30: a cart never holds two items for the same product, also when two adds
\* for the same user and product run concurrently.
OneItemPerProductInCart ==
    \A c \in DOMAIN carts, p \in DOMAIN products :
        Cardinality(ItemsFor(cartItems, c, p)) <= 1

====
